---------------------------- MODULE Spec2Model ----------------------------
(***************************************************************************)
(* lndw-compiler: the interpreter of the custom ISA (src/interpreter.rs),  *)
(* and the two AST passes, constant folding (src/passes/                   *)
(* constant_folding.rs) and strength reduction (src/passes/                *)
(* shift_replacement.rs).                                                  *)
(*                                                                         *)
(* Values are Rust i32.  TLC's own integers are 32 bits wide and refuse to *)
(* overflow, so every i32 operation below is computed without ever leaving *)
(* the range I32_MIN..I32_MAX in an intermediate result.                   *)
(***************************************************************************)
EXTENDS Integers, Sequences, FiniteSets, TLC

I32_MAX == 2147483647
I32_MIN == -I32_MAX - 1
I32_BITS == 32

(***************************************************************************)
(* i32 arithmetic.  Each operator comes as a pair: the two's-complement    *)
(* result (what a build without overflow checks computes) and the          *)
(* condition under which a build with overflow checks panics.              *)
(***************************************************************************)
add_overflows(x, y) ==
    \/ y > 0 /\ x > I32_MAX - y
    \/ y < 0 /\ x < I32_MIN - y

wrapping_add(x, y) ==
    IF y > 0 /\ x > I32_MAX - y THEN (x + I32_MIN) + (y + I32_MIN)
    ELSE IF y < 0 /\ x < I32_MIN - y THEN (x - I32_MIN) + (y - I32_MIN)
    ELSE x + y

sub_overflows(x, y) ==
    \/ y < 0 /\ x > I32_MAX + y
    \/ y > 0 /\ x < I32_MIN + y

wrapping_sub(x, y) ==
    IF y < 0 /\ x > I32_MAX + y THEN (x + I32_MIN) - (y - I32_MIN)
    ELSE IF y > 0 /\ x < I32_MIN + y THEN (x - I32_MIN) - (y + I32_MIN)
    ELSE x - y

wrapping_neg(x) == wrapping_sub(0, x)

neg_overflows(x) == x = I32_MIN

\* x * y modulo 2^32 for y >= 0, by doubling.
RECURSIVE mul_nat(_, _)
mul_nat(x, y) ==
    IF x = 0 \/ y = 0 THEN 0
    ELSE wrapping_add(mul_nat(wrapping_add(x, x), y \div 2),
                      IF y % 2 = 1 THEN x ELSE 0)

wrapping_mul(x, y) ==
    IF y >= 0 THEN mul_nat(x, y)
    ELSE IF y = I32_MIN THEN (IF x % 2 = 1 THEN I32_MIN ELSE 0)
    ELSE wrapping_neg(mul_nat(x, -y))

\* Quotient rounded toward zero; y # 0 and not (x = I32_MIN /\ y = -1).
trunc_div(x, y) ==
    IF y = 1 THEN x
    ELSE IF y = I32_MIN THEN (IF x = I32_MIN THEN 1 ELSE 0)
    ELSE IF x = I32_MIN
         THEN LET m == IF y > 0 THEN y ELSE -y
                  q == (I32_MAX \div m) + (IF (I32_MAX % m) + 1 = m THEN 1 ELSE 0)
              IN  IF y > 0 THEN -q ELSE q
    ELSE LET ax == IF x >= 0 THEN x ELSE -x
             ay == IF y > 0 THEN y ELSE -y
             q  == ax \div ay
         IN  IF (x >= 0) = (y > 0) THEN q ELSE -q

div_overflows(x, y) == x = I32_MIN /\ y = -1

mul_overflows(x, y) ==
    /\ x # 0
    /\ y # 0
    /\ \/ div_overflows(x, y)
       \/ div_overflows(y, x)
       \/ trunc_div(wrapping_mul(x, y), y) # x

\* A shift amount outside 0..31 is the overflow of a shift.
shift_overflows(x, y) == y < 0 \/ y >= I32_BITS

\* The amount a build without overflow checks shifts by: y & 31.
shift_mask(y) == y % I32_BITS

RECURSIVE shl_by(_, _)
shl_by(x, k) == IF x = 0 \/ k = 0 THEN x ELSE shl_by(wrapping_add(x, x), k - 1)

RECURSIVE pow2(_)
pow2(k) == IF k = 0 THEN 1 ELSE 2 * pow2(k - 1)

wrapping_shl(x, y) == shl_by(x, shift_mask(y))

\* Arithmetic shift right: the floor of x / 2^k.
wrapping_shr(x, y) ==
    LET k == shift_mask(y)
    IN  IF k = I32_BITS - 1 THEN (IF x < 0 THEN -1 ELSE 0)
        ELSE x \div pow2(k)

(***************************************************************************)
(* Option<T>, Result<T, LpErr> and a panic (the process aborts).           *)
(***************************************************************************)
None == [some |-> FALSE]
Some(v) == [some |-> TRUE, val |-> v]

Ok(v) == [tag |-> "Ok", val |-> v]
\* LpErr::Interpret(message): the message's kind, and the register, address or
\* variable name it quotes (num = -1, name = "" where it quotes none).
Err(kind, num, name) == [tag |-> "Err", kind |-> kind, num |-> num, name |-> name]
Panic(why) == [tag |-> "Panic", why |-> why]

\* What a builder method (Self) and a method without a result (()) return.
SelfValue == [state |-> "Self"]
Unit == [state |-> "Unit"]

\* InterpreterState
Continue == [state |-> "Continue"]
Finished(v) == [state |-> "Finished", value |-> v]

(***************************************************************************)
(* Inst, the instruction set.  A register is its index; a RAM address is a *)
(* usize.                                                                  *)
(***************************************************************************)
BinOps == {"Add", "Sub", "Mul", "Div", "Shl", "Shr"}

BinInst(op, a, b) == [op |-> op, a |-> a, b |-> b]
Store(n, reg) == [op |-> "Store", n |-> n, reg |-> reg]
Transfer(var, reg) == [op |-> "Transfer", var |-> var, reg |-> reg]
Result(r) == [op |-> "Result", r |-> r]
Write(r, addr) == [op |-> "Write", r |-> r, addr |-> addr]
Load(addr, r) == [op |-> "Load", addr |-> addr, r |-> r]

(***************************************************************************)
(* HashMap<Reg, i32>: a function whose domain is the set of keys present.  *)
(***************************************************************************)
EmptyMap == [k \in {} |-> 0]

get(map, k) == IF k \in DOMAIN map THEN Some(map[k]) ELSE None

insert(map, k, v) == [x \in DOMAIN map \cup {k} |-> IF x = k THEN v ELSE map[x]]

(***************************************************************************)
(* The arithmetic of one binary operator on two i32: a panic in every      *)
(* build (Div of I32_MIN by -1), a panic in a build with overflow checks   *)
(* and the wrapped value otherwise, or the value.  Division by zero is     *)
(* excluded by the callers' guards and panics here as in Rust.             *)
(***************************************************************************)
op_overflows(op, x, y) ==
    CASE op = "Add" -> add_overflows(x, y)
      [] op = "Sub" -> sub_overflows(x, y)
      [] op = "Mul" -> mul_overflows(x, y)
      [] op = "Div" -> FALSE
      [] op = "Shl" -> shift_overflows(x, y)
      [] op = "Shr" -> shift_overflows(x, y)

op_wrapping(op, x, y) ==
    CASE op = "Add" -> wrapping_add(x, y)
      [] op = "Sub" -> wrapping_sub(x, y)
      [] op = "Mul" -> wrapping_mul(x, y)
      [] op = "Div" -> trunc_div(x, y)
      [] op = "Shl" -> wrapping_shl(x, y)
      [] op = "Shr" -> wrapping_shr(x, y)

\* i32::add, i32::sub, i32::mul, i32::div, i32::shl, i32::shr under the
\* build's overflow checks `oc`.
apply_op(op, x, y, oc) ==
    IF op = "Div" /\ (y = 0 \/ div_overflows(x, y)) THEN Panic("divide")
    ELSE IF oc /\ op_overflows(op, x, y) THEN Panic("overflow")
    ELSE Ok(op_wrapping(op, x, y))

\* run_binop with the result written to register a instead of b.
run_binop_into_a(a, b, op, reg_store, oc) ==
    LET va == get(reg_store, a)
        vb == get(reg_store, b)
    IN  IF va.some /\ vb.some
        THEN LET r == apply_op(op, va.val, vb.val, oc)
             IN  IF r.tag = "Ok" THEN Ok([reg_store EXCEPT ![a] = r.val]) ELSE r
        ELSE IF ~va.some THEN Err("no_such_reg", a, "")
        ELSE Err("no_such_reg", b, "")

(***************************************************************************)
(* run_binop: b := op(a, b) when both registers hold a value.              *)
(***************************************************************************)
run_binop(a, b, op, reg_store, oc) ==
    LET va == get(reg_store, a)
        vb == get(reg_store, b)
    IN  IF va.some /\ vb.some
        THEN LET r == apply_op(op, va.val, vb.val, oc)
             IN  IF r.tag = "Ok" THEN Ok([reg_store EXCEPT ![b] = r.val]) ELSE r
        ELSE IF ~va.some THEN Err("no_such_reg", a, "")
        ELSE Err("no_such_reg", b, "")

(***************************************************************************)
(* Text.  A String is the sequence of its characters, each a one-character *)
(* string; the arrows of the trace are one character each.                 *)
(***************************************************************************)
Digits == <<"0", "1", "2", "3", "4", "5", "6", "7", "8", "9">>

digit_of(c) == CHOOSE d \in 0..9 : Digits[d + 1] = c

is_digit(c) == \E d \in 0..9 : Digits[d + 1] = c

\* <i32 as FromStr>::from_str on the digits after the sign: the accumulator
\* runs through the non-negative numbers, or through the non-positive ones
\* after a "-", and leaving the range is PosOverflow / NegOverflow.
RECURSIVE parse_digits(_, _, _)
parse_digits(s, acc, negative) ==
    IF s = <<>> THEN Some(acc)
    ELSE IF ~is_digit(Head(s)) THEN None
    ELSE LET d == digit_of(Head(s))
         IN  IF negative
             THEN IF acc < trunc_div(I32_MIN + d, 10) THEN None
                  ELSE parse_digits(Tail(s), acc * 10 - d, TRUE)
             ELSE IF acc > (I32_MAX - d) \div 10 THEN None
                  ELSE parse_digits(Tail(s), acc * 10 + d, FALSE)

\* str::parse::<i32>: an optional sign, then at least one digit, nothing else.
parse_i32(s) ==
    IF s = <<>> THEN None
    ELSE IF Head(s) \in {"+", "-"}
         THEN IF Tail(s) = <<>> THEN None
              ELSE parse_digits(Tail(s), 0, Head(s) = "-")
    ELSE parse_digits(s, 0, FALSE)

\* Display for i32: the decimal digits, after a "-" for a negative number.
RECURSIVE fmt_nonpos(_)
fmt_nonpos(n) ==
    LET q == trunc_div(n, 10)
        d == (q * 10) - n
    IN  (IF q = 0 THEN <<>> ELSE fmt_nonpos(q)) \o <<Digits[d + 1]>>

fmt_i32(n) == IF n < 0 THEN <<"-">> \o fmt_nonpos(n) ELSE fmt_nonpos(-n)

\* Display for usize.
fmt_usize(n) == fmt_i32(n)

\* Display for Reg: the register's letter.
RegNames == <<"a", "b", "c", "d", "e", "f", "g", "h">>

fmt_reg(r) == <<RegNames[r + 1]>>

(***************************************************************************)
(* Interpreter.  `self` is the record of the struct's fields; `oc` tells   *)
(* whether the build checks arithmetic overflow.                           *)
(***************************************************************************)
OpSymbol(op) ==
    CASE op = "Add" -> <<"+">>
      [] op = "Sub" -> <<"-">>
      [] op = "Mul" -> <<"*">>
      [] op = "Div" -> <<"/">>
      [] op = "Shl" -> <<"<", "<">>
      [] op = "Shr" -> <<">", ">">>

\* display_binop: both registers are unwrapped.
display_binop(self, a, b, op) ==
    LET va == get(self.reg_store, a)
        vb == get(self.reg_store, b)
    IN  IF ~va.some \/ ~vb.some THEN Panic("unwrap")
        ELSE Ok(fmt_i32(va.val) \o <<" ">> \o OpSymbol(op) \o <<" ">> \o fmt_i32(vb.val))

\* cur_as_string: the instruction under the program counter, rendered with
\* the register contents of the moment.
cur_as_string(self) ==
    IF self.program_counter >= Len(self.instructions) THEN Panic("index")
    ELSE LET inst == self.instructions[self.program_counter + 1]
         IN  CASE inst.op \in BinOps -> display_binop(self, inst.a, inst.b, inst.op)
               [] inst.op = "Store" ->
                    Ok(fmt_i32(inst.n) \o <<" ", "RIGHT_ARROW", " ", "[">>
                       \o fmt_reg(inst.reg) \o <<"]">>)
               [] inst.op = "Transfer" ->
                    Ok(<<inst.var>> \o <<" ", "RIGHT_ARROW", " ", "[">>
                       \o fmt_reg(inst.reg) \o <<"]">>)
               [] inst.op = "Result" ->
                    LET v == get(self.reg_store, inst.r)
                    IN  IF ~v.some THEN Panic("unwrap")
                        ELSE Ok(<<"=", " ">> \o fmt_i32(v.val))
               [] inst.op = "Write" ->
                    Ok(<<"WRITE_SIGN", " ", "[">> \o fmt_reg(inst.r)
                       \o <<"]", " ", "RIGHT_ARROW", " ", "[">>
                       \o fmt_usize(inst.addr) \o <<"]">>)
               [] inst.op = "Load" ->
                    Ok(<<"LOAD_SIGN", " ", "[">> \o fmt_reg(inst.r)
                       \o <<"]", " ", "LEFT_ARROW", " ", "[">>
                       \o fmt_usize(inst.addr) \o <<"]">>)

\* The outcome of a call that changes `self`: the struct afterwards and what
\* the call returns (a panic leaves no struct to look at; the fields are kept
\* as they were when the process aborted).
Outcome(self, ret) == [self |-> self, ret |-> ret]

\* with_config: the struct after construction.
with_config(num_cachelines) ==
    [reg_store       |-> EmptyMap,
     ram             |-> [i \in 1..num_cachelines |-> 0],
     instructions    |-> <<>>,
     str_repr        |-> <<>>,
     program_counter |-> 0,
     input_variables |-> None,
     running         |-> FALSE,
     repr_enabled    |-> FALSE]

load_instructions(self, instructions) ==
    LET loaded == [self EXCEPT !.instructions = instructions]
    IN  IF ~loaded.repr_enabled THEN Outcome(loaded, Ok(SelfValue))
        ELSE LET s == cur_as_string(loaded)
             IN  IF s.tag = "Panic" THEN Outcome(loaded, s)
                 ELSE Outcome([loaded EXCEPT !.str_repr = s.val], Ok(SelfValue))

with_variables(self, input_variables) ==
    Outcome([self EXCEPT !.input_variables = Some(input_variables)], Ok(SelfValue))

with_tracing(self) ==
    LET traced == [self EXCEPT !.repr_enabled = TRUE]
    IN  IF traced.instructions = <<>> THEN Outcome(traced, Ok(SelfValue))
        ELSE LET s == cur_as_string(traced)
             IN  IF s.tag = "Panic" THEN Outcome(traced, s)
                 ELSE Outcome([traced EXCEPT !.str_repr = s.val], Ok(SelfValue))

ready(self) == Outcome([self EXCEPT !.running = TRUE], Ok(SelfValue))

is_running(self) == self.running

display_current(self) == self.str_repr

\* reset that leaves the RAM as it is.
reset_keeping_ram(self) ==
    Outcome([self EXCEPT !.program_counter = 0, !.reg_store = EmptyMap], Ok(Unit))

reset(self) ==
    Outcome([self EXCEPT !.program_counter = 0,
                         !.ram = [i \in DOMAIN self.ram |-> 0],
                         !.reg_store = EmptyMap],
            Ok(Unit))

(***************************************************************************)
(* step: one instruction.                                                  *)
(***************************************************************************)
\* Inst::Add .. Inst::Shr (Div after its test of register b).
step_binop(self, inst, oc) ==
    IF inst.op = "Div" /\ get(self.reg_store, inst.b) = Some(0)
    THEN Outcome(self, Err("divzero", -1, ""))
    ELSE LET r == run_binop(inst.a, inst.b, inst.op, self.reg_store, oc)
         IN  IF r.tag = "Ok"
             THEN Outcome([self EXCEPT !.reg_store = r.val,
                                       !.program_counter = @ + 1],
                          Ok(Continue))
             ELSE Outcome(self, r)

\* Inst::Store without the advance of the program counter.
step_store_no_advance(self, inst) ==
    Outcome([self EXCEPT !.reg_store = insert(@, inst.reg, inst.n)], Ok(Continue))

\* Inst::Store
step_store(self, inst) ==
    Outcome([self EXCEPT !.reg_store = insert(@, inst.reg, inst.n),
                         !.program_counter = @ + 1],
            Ok(Continue))

\* Inst::Transfer that puts 0 into the register when the value is not a
\* number, and then fails.
step_transfer_default_zero(self, inst) ==
    IF ~self.input_variables.some
    THEN Outcome(self, Err("no_variables_loaded", -1, ""))
    ELSE LET vars == self.input_variables.val
         IN  IF inst.var \notin DOMAIN vars
             THEN Outcome(self, Err("unknown_var", -1, inst.var))
             ELSE LET val_str == vars[inst.var]
                      val     == parse_i32(val_str)
                  IN  IF val_str = <<>>
                      THEN Outcome(self, Err("empty_var", -1, inst.var))
                      ELSE IF ~val.some
                      THEN Outcome([self EXCEPT !.reg_store = insert(@, inst.reg, 0)],
                                   Err("nan_var", -1, inst.var))
                      ELSE Outcome([self EXCEPT
                                       !.reg_store = insert(@, inst.reg, val.val),
                                       !.program_counter = @ + 1],
                                   Ok(Continue))

\* Inst::Transfer with the parse before the test for the empty string.
step_transfer_parse_first(self, inst) ==
    IF ~self.input_variables.some
    THEN Outcome(self, Err("no_variables_loaded", -1, ""))
    ELSE LET vars == self.input_variables.val
         IN  IF inst.var \notin DOMAIN vars
             THEN Outcome(self, Err("unknown_var", -1, inst.var))
             ELSE LET val_str == vars[inst.var]
                      val     == parse_i32(val_str)
                  IN  IF ~val.some
                      THEN Outcome(self, Err("nan_var", -1, inst.var))
                      ELSE IF val_str = <<>>
                      THEN Outcome(self, Err("empty_var", -1, inst.var))
                      ELSE Outcome([self EXCEPT
                                       !.reg_store = insert(@, inst.reg, val.val),
                                       !.program_counter = @ + 1],
                                   Ok(Continue))

\* Inst::Transfer
step_transfer(self, inst) ==
    IF ~self.input_variables.some
    THEN Outcome(self, Err("no_variables_loaded", -1, ""))
    ELSE LET vars == self.input_variables.val
         IN  IF inst.var \notin DOMAIN vars
             THEN Outcome(self, Err("unknown_var", -1, inst.var))
             ELSE LET val_str == vars[inst.var]
                      val     == parse_i32(val_str)
                  IN  IF val_str = <<>>
                      THEN Outcome(self, Err("empty_var", -1, inst.var))
                      ELSE IF ~val.some
                      THEN Outcome(self, Err("nan_var", -1, inst.var))
                      ELSE Outcome([self EXCEPT
                                       !.reg_store = insert(@, inst.reg, val.val),
                                       !.program_counter = @ + 1],
                                   Ok(Continue))

\* Inst::Result without the write of running.
step_result_still_running(self, inst) ==
    LET stopped == [self EXCEPT !.program_counter = @ + 1]
        v       == get(self.reg_store, inst.r)
    IN  IF v.some THEN Outcome(stopped, Ok(Finished(v.val)))
        ELSE Outcome(stopped, Err("register_empty", inst.r, ""))

\* Inst::Result that looks at the register before it changes anything.
step_result_register_first(self, inst) ==
    LET stopped == [self EXCEPT !.program_counter = @ + 1, !.running = FALSE]
        v       == get(self.reg_store, inst.r)
    IN  IF v.some THEN Outcome(stopped, Ok(Finished(v.val)))
        ELSE Outcome(self, Err("register_empty", inst.r, ""))

\* Inst::Result
step_result(self, inst) ==
    LET stopped == [self EXCEPT !.program_counter = @ + 1, !.running = FALSE]
        v       == get(self.reg_store, inst.r)
    IN  IF v.some THEN Outcome(stopped, Ok(Finished(v.val)))
        ELSE Outcome(stopped, Err("register_empty", inst.r, ""))

\* Inst::Write and Inst::Load, the Load keeping the value of a register
\* that holds one.
step_memory_load_into_empty(self, inst) ==
    IF inst.addr >= Len(self.ram)
    THEN Outcome(self, Err("no_ram_address", inst.addr, ""))
    ELSE IF inst.op = "Write"
    THEN LET val == get(self.reg_store, inst.r)
         IN  IF val.some
             THEN Outcome([self EXCEPT !.ram[inst.addr + 1] = val.val,
                                       !.program_counter = @ + 1],
                          Ok(Continue))
             ELSE Outcome(self, Err("register_empty", inst.r, ""))
    ELSE Outcome([self EXCEPT
                     !.reg_store = IF inst.r \in DOMAIN @ THEN @
                                   ELSE insert(@, inst.r, self.ram[inst.addr + 1]),
                     !.program_counter = @ + 1],
                 Ok(Continue))

\* Inst::Write and Inst::Load with the guard off by one: the last cell is
\* refused too.
step_memory_off_by_one(self, inst) ==
    IF inst.addr + 1 >= Len(self.ram)
    THEN Outcome(self, Err("no_ram_address", inst.addr, ""))
    ELSE IF inst.op = "Write"
    THEN LET val == get(self.reg_store, inst.r)
         IN  IF val.some
             THEN Outcome([self EXCEPT !.ram[inst.addr + 1] = val.val,
                                       !.program_counter = @ + 1],
                          Ok(Continue))
             ELSE Outcome(self, Err("register_empty", inst.r, ""))
    ELSE Outcome([self EXCEPT
                     !.reg_store = insert(@, inst.r, self.ram[inst.addr + 1]),
                     !.program_counter = @ + 1],
                 Ok(Continue))

\* Inst::Write and Inst::Load, after the guard on the address.
step_memory(self, inst) ==
    IF inst.addr >= Len(self.ram)
    THEN Outcome(self, Err("no_ram_address", inst.addr, ""))
    ELSE IF inst.op = "Write"
    THEN LET val == get(self.reg_store, inst.r)
         IN  IF val.some
             THEN Outcome([self EXCEPT !.ram[inst.addr + 1] = val.val,
                                       !.program_counter = @ + 1],
                          Ok(Continue))
             ELSE Outcome(self, Err("register_empty", inst.r, ""))
    ELSE Outcome([self EXCEPT
                     !.reg_store = insert(@, inst.r, self.ram[inst.addr + 1]),
                     !.program_counter = @ + 1],
                 Ok(Continue))

\* The match of step on the instruction under the program counter.
execute(self, oc) ==
    LET inst == self.instructions[self.program_counter + 1]
    IN  CASE inst.op \in BinOps          -> step_binop(self, inst, oc)
          [] inst.op = "Store"             -> step_store(self, inst)
          [] inst.op = "Transfer"          -> step_transfer(self, inst)
          [] inst.op = "Result"            -> step_result(self, inst)
          [] inst.op \in {"Write", "Load"} -> step_memory(self, inst)

\* step with the second guard off by one: at the end of the instructions
\* it indexes past them.
step_guard_past_end(self, oc) ==
    IF ~self.running THEN Outcome(self, Err("not_running", -1, ""))
    ELSE IF self.program_counter > Len(self.instructions)
    THEN Outcome(self, Err("no_result_found", -1, ""))
    ELSE IF self.program_counter = Len(self.instructions)
    THEN Outcome(self, Panic("index"))
    ELSE IF self.repr_enabled
    THEN LET s == cur_as_string(self)
         IN  IF s.tag = "Panic" THEN Outcome(self, s)
             ELSE execute([self EXCEPT !.str_repr = s.val], oc)
    ELSE execute(self, oc)

step(self, oc) ==
    IF ~self.running THEN Outcome(self, Err("not_running", -1, ""))
    ELSE IF self.program_counter >= Len(self.instructions)
    THEN Outcome(self, Err("no_result_found", -1, ""))
    ELSE IF self.repr_enabled
    THEN LET s == cur_as_string(self)
         IN  IF s.tag = "Panic" THEN Outcome(self, s)
             ELSE execute([self EXCEPT !.str_repr = s.val], oc)
    ELSE execute(self, oc)

(***************************************************************************)
(* run_to_end: step until the program finishes or a step fails.  The `?`   *)
(* hands a failed step's error to the caller; a panic ends the process.    *)
(***************************************************************************)
\* What run_to_end returns in Ok: the i32 the program computed.
I32(v) == [state |-> "i32", value |-> v]

\* The loop of run_to_end without the `?`: a failed step does not end it.
run_to_end_turn_ignoring_failures(self, oc) ==
    LET o == step(self, oc)
    IN  IF o.ret.tag = "Panic" THEN [looping |-> FALSE, o |-> o]
        ELSE IF o.ret.tag = "Err" THEN [looping |-> TRUE, o |-> o]
        ELSE IF o.ret.val.state = "Finished"
        THEN [looping |-> FALSE, o |-> Outcome(o.self, Ok(I32(o.ret.val.value)))]
        ELSE [looping |-> TRUE, o |-> o]

\* One turn of the loop of run_to_end: `looping` tells whether the loop goes
\* on with o.self, and o.ret is then the step's Continue; otherwise o.ret
\* is what run_to_end returns.
run_to_end_turn(self, oc) ==
    LET o == step(self, oc)
    IN  IF o.ret.tag # "Ok" THEN [looping |-> FALSE, o |-> o]
        ELSE IF o.ret.val.state = "Finished"
        THEN [looping |-> FALSE, o |-> Outcome(o.self, Ok(I32(o.ret.val.value)))]
        ELSE [looping |-> TRUE, o |-> o]

RECURSIVE run_to_end(_, _)
run_to_end(self, oc) ==
    CHOOSE o \in UNION {IF t.looping THEN {run_to_end(t.o.self, oc)} ELSE {t.o} :
                           t \in {run_to_end_turn(self, oc)}} : TRUE

(***************************************************************************)
(* The inputs.  The instruction vector never changes after it is loaded    *)
(* and the interpreter reads no slot but the one under its program         *)
(* counter, so a loaded vector may leave slots open (Unfixed): an open     *)
(* slot is drawn from InstSet when the interpreter first reads it, and     *)
(* stays as drawn.  Every program over InstSet of at most MaxProgLen       *)
(* instructions is covered that way.                                       *)
(***************************************************************************)
MaxProgLen == 2
NumCachelines == 2
NumRegs == 2

Regs == 0..(NumRegs - 1)
Addrs == 0..(NumCachelines + 1)
Literals == {5, -1, I32_MIN}
VarNames == {"x"}
InputStrings == {<<>>, <<"7">>, <<"-", "1", "2">>, <<"a", "b", "c">>}

InstSet ==
    {BinInst(op, a, b) : op \in BinOps, a \in Regs, b \in Regs}
    \cup {Store(n, reg) : n \in Literals, reg \in Regs}
    \cup {Transfer(var, reg) : var \in VarNames, reg \in Regs}
    \cup {Result(r) : r \in Regs}
    \cup {Write(r, addr) : r \in Regs, addr \in Addrs}
    \cup {Load(addr, r) : addr \in Addrs, r \in Regs}

Unfixed == [op |-> "?"]

\* The program of the specification's tests.
SumProgram == <<Store(5, 0), Store(3, 1), BinInst("Add", 0, 1), Result(1)>>

\* A value written to a cell and loaded back into another register, after
\* the register it came from was overwritten.
RoundTripProgram ==
    <<Store(5, 0), Write(0, 1), Store(-1, 0), Load(1, 1), Result(1)>>

Programs ==
    {[i \in 1..n |-> Unfixed] : n \in 0..MaxProgLen}
       \cup {SumProgram, RoundTripProgram}

VarMaps == UNION {[names -> InputStrings] : names \in SUBSET VarNames}

\* The vectors a read of slot pc may find: the slot as loaded, or drawn now.
Fetch(instructions, pc) ==
    IF pc < Len(instructions) /\ instructions[pc + 1] = Unfixed
    THEN {[instructions EXCEPT ![pc + 1] = inst] : inst \in InstSet}
    ELSE {instructions}

(***************************************************************************)
(* AssemblyOutput, the panel that holds a compiled program, the result of  *)
(* its run to the end and the tracing interpreter the panel steps.         *)
(***************************************************************************)
\* AssemblyOutput::empty (Default::default() for every field but heading)
empty ==
    [asm            |-> None,
     error          |-> None,
     program_result |-> None,
     interpreter    |-> None,
     hw             |-> None,
     running        |-> FALSE,
     stepwise       |-> FALSE,
     step_triggered |-> FALSE,
     total_time     |-> 0]

clear(self) ==
    [self EXCEPT !.asm = None,
                 !.error = None,
                 !.program_result = None,
                 !.running = FALSE,
                 !.total_time = 0,
                 !.hw = None,
                 !.interpreter = None,
                 !.stepwise = FALSE,
                 !.step_triggered = FALSE]

\* AssemblyOutput::instructions
asm_instructions(self) ==
    IF ~self.asm.some THEN <<>>
    ELSE [i \in 1..Len(self.asm.val) |-> self.asm.val[i].inst]

\* compile, r the result of Compiler::compile: Ok(asm) or Err.
compile(self, r, hw) ==
    LET cleared == [clear(self) EXCEPT !.hw = Some(hw)]
    IN  IF r.tag = "Ok"
        THEN Outcome([cleared EXCEPT
                         !.asm = Some([i \in 1..Len(r.val) |->
                                          [inst |-> r.val[i], progress |-> 0]])],
                     Ok(Unit))
        ELSE Outcome([cleared EXCEPT !.error = Some("Compile error")],
                     Err("compile", -1, ""))

\* The builder chain of run: with_config, load_instructions, with_variables,
\* with_tracing for the interpreter the panel keeps, ready.
built(self, vars, tracing) ==
    LET loaded == load_instructions(with_config(self.hw.val.num_cachelines),
                                    asm_instructions(self)).self
        given  == with_variables(loaded, vars).self
        traced == IF tracing THEN with_tracing(given) ELSE Outcome(given, Ok(SelfValue))
    IN  IF traced.ret.tag = "Panic" THEN traced ELSE ready(traced.self)

\* The match on what run_to_end returned (r); t is the tracing interpreter
\* the builder chain gives, used when the panel holds none.
run_match(started, r, t) ==
    LET finished == [started EXCEPT !.program_result = Some(r.val),
                                    !.running = TRUE]
    IN  CASE r.tag = "Panic" -> Outcome(started, r)
          [] r.tag = "Err" ->
               Outcome([started EXCEPT !.error = Some("Runtime error")], Ok(Unit))
          [] r.tag = "Ok" /\ started.interpreter.some -> Outcome(finished, Ok(Unit))
          [] r.tag = "Ok" /\ ~started.interpreter.some ->
               IF t.ret.tag = "Panic" THEN Outcome(finished, t.ret)
               ELSE Outcome([finished EXCEPT !.interpreter = Some(t.self)], Ok(Unit))

run(self, vars, stepwise, oc) ==
    LET started == [self EXCEPT !.program_result = None,
                                !.stepwise = stepwise,
                                !.step_triggered = FALSE]
    IN  IF ~started.asm.some THEN Outcome(started, Ok(Unit))
        ELSE IF ~started.hw.some THEN Outcome(started, Panic("unwrap"))
        ELSE CHOOSE o \in {run_match(started, r, t) :
                              r \in {run_to_end(built(started, vars, FALSE).self, oc).ret},
                              t \in {built(started, vars, TRUE)}} : TRUE

\* Progress of an instruction's bar, in units of 0.00001: the bar is full
\* at 1.0.
FullProgress == 100000

\* The progress a frame adds to the bar of the instruction.
progress_increment(inst) ==
    CASE inst.op \in {"Add", "Sub", "Shl", "Shr"} -> 3333
      [] inst.op = "Mul" -> 1667
      [] inst.op = "Div" -> 833
      [] inst.op \in {"Store", "Transfer", "Result"} -> 6670
      [] inst.op \in {"Write", "Load"} -> 330

\* asm.iter_mut().find(|(_, p)| p < &1.0): the position of the first
\* instruction whose bar is not full, 0 when every bar is full.
curr_inst(asm) ==
    LET unfinished == {i \in 1..Len(asm) : asm[i].progress < FullProgress}
    IN  IF unfinished = {} THEN 0
        ELSE CHOOSE i \in unfinished : \A j \in unfinished : i <= j

\* The frame's animation of instruction i; stepped is the interpreter
\* after the frame (its step's result is dropped).  total_time counts the
\* frames (0.016667 each).
animate(self, i, stepped) ==
    LET progress == self.asm.val[i].progress
                       + progress_increment(self.asm.val[i].inst)
    IN  [self EXCEPT !.interpreter = stepped,
                     !.asm.val[i].progress = progress,
                     !.step_triggered = IF progress >= FullProgress THEN FALSE ELSE @,
                     !.total_time = @ + 1]

\* The stepping logic of ui: `done` tells that every bar was full.
advance(self, oc) ==
    LET i == curr_inst(self.asm.val)
    IN  IF ~(self.running /\ self.step_triggered)
        THEN [done |-> FALSE, o |-> Outcome(self, Ok(Unit))]
        ELSE IF i = 0 THEN [done |-> TRUE, o |-> Outcome(self, Ok(Unit))]
        ELSE IF self.asm.val[i].progress # 0
        THEN [done |-> FALSE, o |-> Outcome(animate(self, i, self.interpreter), Ok(Unit))]
        ELSE IF ~self.interpreter.some
        THEN [done |-> FALSE, o |-> Outcome(self, Panic("unwrap"))]
        ELSE CHOOSE f \in {[done |-> FALSE,
                            o |-> IF st.ret.tag = "Panic" THEN Outcome(self, st.ret)
                                  ELSE Outcome(animate(self, i, Some(st.self)), Ok(Unit))] :
                              st \in {step(self.interpreter.val, oc)}} : TRUE

\* The buttons of ui: `click` is the button under the pointer when it is
\* pressed in this frame; a disabled button takes no click.
buttons(self, click) ==
    LET stepping == self.interpreter.some /\ is_running(self.interpreter.val)
        step_enabled == stepping /\ self.stepwise /\ ~self.step_triggered
        finish_enabled == stepping /\ self.stepwise
    IN  IF click = "step" /\ step_enabled THEN [self EXCEPT !.step_triggered = TRUE]
        ELSE IF click = "to_finish" /\ finish_enabled THEN [self EXCEPT !.stepwise = FALSE]
        ELSE self

\* AssemblyOutput::ui, one frame.
ui(self, click, oc) ==
    IF self.error.some \/ ~self.asm.some THEN Outcome(self, Ok(Unit))
    ELSE CHOOSE o \in
            {IF a.o.ret.tag = "Panic" THEN a.o
             ELSE IF ~a.o.self.hw.some THEN Outcome(a.o.self, Panic("unwrap"))
             ELSE IF a.done /\ ~a.o.self.program_result.some
             THEN Outcome(buttons(a.o.self, click), Panic("unwrap"))
             ELSE Outcome(buttons(a.o.self, click), Ok(Unit)) :
                a \in {advance([self EXCEPT !.step_triggered = @ \/ ~self.stepwise], oc)}} :
            TRUE

\* The pointer in a frame.
Clicks == {"none", "step", "to_finish"}

\* What Compiler::compile returns to the panel: a failure, or a program
\* that ends in Result.
CompileResults ==
    {Err("compile", -1, ""),
     Ok(<<Store(5, 0), Result(0)>>),
     Ok(<<Transfer("x", 0), Result(0)>>),
     Ok(<<Transfer("x", 0), Store(I32_MIN, 1), BinInst("Add", 0, 1), Result(1)>>)}

\* InterpreterOptions
Hardware == {[num_cachelines |-> NumCachelines]}

(***************************************************************************)
(* The interpreter as a state machine: the struct's fields, the return     *)
(* value of the last call, and who holds the interpreter: its owner, the   *)
(* loop of run_to_end (which takes it by value), or nobody once            *)
(* run_to_end has returned.  Whether arithmetic overflow panics depends on *)
(* the build (overflow-checks); a step that overflows has both outcomes.   *)
(***************************************************************************)
VARIABLES reg_store, ram, instructions, program_counter, input_variables,
          running, str_repr, repr_enabled, ret, holder

\* The passes' side: the tree given to a pass, what the pass returned, what
\* a second application returned, and whether the build checks overflow.
VARIABLES expr, result, again, overflow_checks

vmvars == <<reg_store, ram, instructions, program_counter, input_variables,
            running, str_repr, repr_enabled, ret, holder>>

passvars == <<expr, result, again, overflow_checks>>

\* The panel's side: the AssemblyOutput struct.
VARIABLES assembly_output

vars == <<vmvars, passvars, assembly_output>>

NotRun == [tag |-> "NotRun"]

\* No panel is involved.
NoOutput == assembly_output = empty

\* No pass is involved.
NoPass ==
    /\ expr = NotRun
    /\ result = NotRun
    /\ again = NotRun
    /\ overflow_checks = FALSE

Self ==
    [reg_store       |-> reg_store,
     ram             |-> ram,
     instructions    |-> instructions,
     str_repr        |-> str_repr,
     program_counter |-> program_counter,
     input_variables |-> input_variables,
     running         |-> running,
     repr_enabled    |-> repr_enabled]

\* The call's outcome becomes the state.
Becomes(o) ==
    /\ reg_store' = o.self.reg_store
    /\ ram' = o.self.ram
    /\ instructions' = o.self.instructions
    /\ str_repr' = o.self.str_repr
    /\ program_counter' = o.self.program_counter
    /\ input_variables' = o.self.input_variables
    /\ running' = o.self.running
    /\ repr_enabled' = o.self.repr_enabled
    /\ ret' = o.ret
    /\ UNCHANGED <<passvars, assembly_output>>

aborted == ret.tag = "Panic"

\* The owner may call a method: the process lives and run_to_end has not
\* taken the interpreter.
Owned == ~aborted /\ holder = "owner"

Init ==
    /\ LET self == with_config(NumCachelines)
       IN  /\ reg_store = self.reg_store
           /\ ram = self.ram
           /\ instructions = self.instructions
           /\ str_repr = self.str_repr
           /\ program_counter = self.program_counter
           /\ input_variables = self.input_variables
           /\ running = self.running
           /\ repr_enabled = self.repr_enabled
    /\ ret = Ok(SelfValue)
    /\ holder = "owner"
    /\ NoPass
    /\ NoOutput

\* The builder methods are called as the repository calls them: while the
\* interpreter is being put together, before ready.
Constructing == ~running /\ program_counter = 0

\* A program is loaded once, into an interpreter that holds none.
LoadInstructions ==
    /\ Owned
    /\ Constructing
    /\ instructions = <<>>
    /\ \E program \in Programs :
          \E fetched \in (IF repr_enabled THEN Fetch(program, program_counter)
                          ELSE {program}) :
             Becomes(load_instructions(Self, fetched))
    /\ UNCHANGED holder

WithVariables ==
    /\ Owned
    /\ Constructing
    /\ \E input \in VarMaps : Becomes(with_variables(Self, input))
    /\ UNCHANGED holder

WithTracing ==
    /\ Owned
    /\ Constructing
    /\ \E fetched \in Fetch(instructions, program_counter) :
          Becomes(with_tracing([Self EXCEPT !.instructions = fetched]))
    /\ UNCHANGED holder

Ready ==
    /\ Owned
    /\ Becomes(ready(Self))
    /\ UNCHANGED holder

Step ==
    /\ Owned
    /\ \E fetched \in (IF running THEN Fetch(instructions, program_counter)
                       ELSE {instructions}) :
          \E checked \in BOOLEAN :
             Becomes(step([Self EXCEPT !.instructions = fetched], checked))
    /\ UNCHANGED holder

\* run_to_end, one turn of its loop at a time; the first turn takes the
\* interpreter from the owner, the last one returns and drops it.  It is
\* called on an interpreter that has executed nothing yet.
RunToEnd ==
    /\ ~aborted
    /\ holder \in {"owner", "run_to_end"}
    /\ holder = "owner" => program_counter = 0
    /\ \E fetched \in (IF running THEN Fetch(instructions, program_counter)
                       ELSE {instructions}) :
          \E checked \in BOOLEAN :
             LET t == run_to_end_turn([Self EXCEPT !.instructions = fetched],
                                      checked)
             IN  /\ Becomes(t.o)
                 /\ holder' = IF t.looping \/ t.o.ret.tag = "Panic"
                              THEN "run_to_end" ELSE "dropped"

Next ==
    \/ LoadInstructions
    \/ WithVariables
    \/ WithTracing
    \/ Ready
    \/ Step
    \/ RunToEnd

Spec == Init /\ [][Next]_vars

(***************************************************************************)
(* The expression tree of the passes (crate::types): Num(i32), Var(name),   *)
(* UnaryOp(Operator, Expr), BinaryOp(Expr, Operator, Expr).                *)
(***************************************************************************)
Num(n) == [type |-> "Num", n |-> n]
Var(name) == [type |-> "Var", name |-> name]
UnaryOp(operator, e) == [type |-> "UnaryOp", operator |-> operator, expr |-> e]
BinaryOp(lhs, operator, rhs) ==
    [type |-> "BinaryOp", lhs |-> lhs, operator |-> operator, rhs |-> rhs]

Operator == {"Add", "Sub", "Mul", "Div", "Shl", "Shr"}

(***************************************************************************)
(* Constant folding.  A pass returns Ok(tree) or panics; a panic in a      *)
(* child is the panic of the whole call.                                   *)
(***************************************************************************)
\* The unary node, its child folded to e.
fold_unary(operator, e, oc) ==
    IF e.type = "Num" /\ operator = "Sub"
    THEN IF oc /\ neg_overflows(e.n) THEN Panic("overflow")
         ELSE Ok(Num(wrapping_neg(e.n)))
    ELSE Ok(UnaryOp(operator, e))

\* The binary node, its children folded to l and r.
fold_binary(l, operator, r, oc) ==
    IF l.type = "Num" /\ r.type = "Num"
    THEN IF operator = "Div" /\ r.n = 0
         THEN Ok(BinaryOp(l, operator, r))
         ELSE LET res == apply_op(operator, l.n, r.n, oc)
              IN  IF res.tag = "Ok" THEN Ok(Num(res.val)) ELSE res
    ELSE Ok(BinaryOp(l, operator, r))

RECURSIVE run_constant_fold(_, _)

\* Folding with the test of the unary node made on the child as given, not
\* on the folded child.
run_constant_fold_unfolded_child(self, oc) ==
    CASE self.type \in {"Num", "Var"} -> Ok(self)
      [] self.type = "UnaryOp" ->
            LET e == run_constant_fold(self.expr, oc)
            IN  IF e.tag = "Panic" THEN e
                ELSE IF self.expr.type = "Num"
                THEN fold_unary(self.operator, e.val, oc)
                ELSE Ok(UnaryOp(self.operator, e.val))
      [] self.type = "BinaryOp" ->
            LET l == run_constant_fold(self.lhs, oc)
                r == run_constant_fold(self.rhs, oc)
            IN  IF l.tag = "Panic" THEN l
                ELSE IF r.tag = "Panic" THEN r
                ELSE fold_binary(l.val, self.operator, r.val, oc)

run_constant_fold(self, oc) ==
    CASE self.type \in {"Num", "Var"} -> Ok(self)
      [] self.type = "UnaryOp" ->
            LET e == run_constant_fold(self.expr, oc)
            IN  IF e.tag = "Panic" THEN e
                ELSE fold_unary(self.operator, e.val, oc)
      [] self.type = "BinaryOp" ->
            LET l == run_constant_fold(self.lhs, oc)
                r == run_constant_fold(self.rhs, oc)
            IN  IF l.tag = "Panic" THEN l
                ELSE IF r.tag = "Panic" THEN r
                ELSE fold_binary(l.val, self.operator, r.val, oc)

(***************************************************************************)
(* Strength reduction.                                                     *)
(***************************************************************************)
\* i32 & i32 on two's complement.
RECURSIVE bit_and(_, _)
bit_and(x, y) ==
    IF x = 0 \/ y = 0 THEN 0
    ELSE IF x = -1 THEN y
    ELSE IF y = -1 THEN x
    ELSE 2 * bit_and(x \div 2, y \div 2) + (x % 2) * (y % 2)

\* (n & (n - 1)) == 0, the subtraction under the build's overflow checks.
power_of_two_test(n, oc) ==
    IF oc /\ sub_overflows(n, 1) THEN Panic("overflow")
    ELSE Ok(bit_and(n, wrapping_sub(n, 1)) = 0)

\* i32::ilog2 panics for an argument that is not positive.
RECURSIVE floor_log2(_)
floor_log2(n) == IF n < 2 THEN 0 ELSE 1 + floor_log2(n \div 2)

ilog2(n) == IF n <= 0 THEN Panic("ilog2") ELSE Ok(floor_log2(n))

RECURSIVE replace_multiplications_with_bitshifts(_, _)

\* The first branch of Mul/Div: the left literal passed the test.
shift_by_left_literal(left, right) ==
    LET log == ilog2(left.n)
    IN  IF log.tag = "Panic" THEN log
        ELSE Ok(BinaryOp(right, "Shl", Num(log.val)))

\* The second branch of Mul/Div: the right literal passed the test.
shift_by_right_literal(left, op, right, oc) ==
    LET l   == replace_multiplications_with_bitshifts(left, oc)
        log == ilog2(right.n)
    IN  IF l.tag = "Panic" THEN l
        ELSE IF log.tag = "Panic" THEN log
        ELSE Ok(BinaryOp(l.val, IF op = "Mul" THEN "Shl" ELSE "Shr", Num(log.val)))

\* The branches that keep the operator: both children reduced.
reduce_children(left, op, right, oc) ==
    LET l == replace_multiplications_with_bitshifts(left, oc)
        r == replace_multiplications_with_bitshifts(right, oc)
    IN  IF l.tag = "Panic" THEN l
        ELSE IF r.tag = "Panic" THEN r
        ELSE Ok(BinaryOp(l.val, op, r.val))

\* The else-if and else of Mul/Div.
reduce_by_right(left, op, right, oc) ==
    LET rhs_test == IF right.type = "Num" THEN power_of_two_test(right.n, oc)
                    ELSE Ok(FALSE)
    IN  IF rhs_test.tag = "Panic" THEN rhs_test
        ELSE IF rhs_test.val THEN shift_by_right_literal(left, op, right, oc)
        ELSE reduce_children(left, op, right, oc)

\* Mul and Div.  The test of the left literal is made before the operator
\* is looked at.
reduce_mul_div(left, op, right, oc) ==
    LET lhs_test == IF left.type = "Num" THEN power_of_two_test(left.n, oc)
                    ELSE Ok(FALSE)
    IN  IF lhs_test.tag = "Panic" THEN lhs_test
        ELSE IF lhs_test.val /\ op # "Div" THEN shift_by_left_literal(left, right)
        ELSE reduce_by_right(left, op, right, oc)

replace_multiplications_with_bitshifts(self, oc) ==
    CASE self.type \in {"Num", "Var"} -> Ok(self)
      [] self.type = "UnaryOp" ->
            LET e == replace_multiplications_with_bitshifts(self.expr, oc)
            IN  IF e.tag = "Panic" THEN e
                ELSE Ok(UnaryOp(self.operator, e.val))
      [] self.type = "BinaryOp" /\ self.operator \in {"Add", "Sub", "Shl", "Shr"} ->
            reduce_children(self.lhs, self.operator, self.rhs, oc)
      [] self.type = "BinaryOp" /\ self.operator \in {"Mul", "Div"} ->
            reduce_mul_div(self.lhs, self.operator, self.rhs, oc)

(***************************************************************************)
(* The trees given to the passes.  A tree is built as a parser builds it,  *)
(* from the leaves up: a tree gets an operator above it, alone or next to  *)
(* a sibling.  The sibling is the smaller of the two children, so with     *)
(* siblings of up to (max - 1) \div 2 operator nodes every tree of at most *)
(* max operator nodes over the leaves and operators is built.              *)
(***************************************************************************)
RECURSIVE Size(_)
Size(e) ==
    CASE e.type \in {"Num", "Var"} -> 0
      [] e.type = "UnaryOp" -> 1 + Size(e.expr)
      [] e.type = "BinaryOp" -> 1 + Size(e.lhs) + Size(e.rhs)

RECURSIVE ExprsOfSize(_, _, _, _)
ExprsOfSize(k, leaves, unary, binary) ==
    IF k = 0 THEN leaves
    ELSE LET smaller == [i \in 0..(k - 1) |-> ExprsOfSize(i, leaves, unary, binary)]
         IN  {UnaryOp(o, e) : o \in unary, e \in smaller[k - 1]}
             \cup UNION {{BinaryOp(l, o, r) :
                             l \in smaller[i], o \in binary, r \in smaller[k - 1 - i]} :
                         i \in 0..(k - 1)}

Siblings(max, leaves, unary, binary) ==
    UNION {ExprsOfSize(k, leaves, unary, binary) : k \in 0..((max - 1) \div 2)}

Grown(e, max, siblings, unary, binary) ==
    IF Size(e) >= max THEN {}
    ELSE {UnaryOp(o, e) : o \in unary}
         \cup UNION {{BinaryOp(e, o, s), BinaryOp(s, o, e)} :
                     o \in binary,
                     s \in {t \in siblings : Size(e) + Size(t) + 1 <= max}}

MaxFoldOps == 2
FoldLeaves == {Num(0), Num(-1), Num(2), Num(I32_MIN), Var("x")}
FoldUnary == {"Sub", "Add"}
FoldSiblings == Siblings(MaxFoldOps, FoldLeaves, FoldUnary, Operator)

MaxShiftOps == 2
ShiftLeaves == {Num(0), Num(1), Num(3), Num(4), Num(I32_MIN), Var("x")}
ShiftUnary == {"Sub"}
ShiftSiblings == Siblings(MaxShiftOps, ShiftLeaves, ShiftUnary, Operator)

\* The interpreter is not involved: it stays as constructed.
NoInterpreter ==
    /\ LET self == with_config(NumCachelines)
       IN  /\ reg_store = self.reg_store
           /\ ram = self.ram
           /\ instructions = self.instructions
           /\ str_repr = self.str_repr
           /\ program_counter = self.program_counter
           /\ input_variables = self.input_variables
           /\ running = self.running
           /\ repr_enabled = self.repr_enabled
    /\ ret = Ok(SelfValue)
    /\ holder = "owner"

(***************************************************************************)
(* Constant folding as a state machine: a tree is built and folded, and    *)
(* the tree that came out is folded again                                  *)
(* (e.run_constant_fold().run_constant_fold() panics where the first call  *)
(* does).                                                                  *)
(***************************************************************************)
InitFold ==
    /\ NoInterpreter
    /\ NoOutput
    /\ expr \in FoldLeaves
    /\ overflow_checks \in BOOLEAN
    /\ result = NotRun
    /\ again = NotRun

BuildFold ==
    /\ result = NotRun
    /\ expr' \in Grown(expr, MaxFoldOps, FoldSiblings, FoldUnary, Operator)
    /\ UNCHANGED <<vmvars, assembly_output, result, again, overflow_checks>>

Fold ==
    /\ result = NotRun
    /\ result' = run_constant_fold(expr, overflow_checks)
    /\ UNCHANGED <<vmvars, assembly_output, expr, again, overflow_checks>>

FoldAgain ==
    /\ result # NotRun
    /\ again = NotRun
    /\ again' = IF result.tag = "Panic" THEN result
                ELSE run_constant_fold(result.val, overflow_checks)
    /\ UNCHANGED <<vmvars, assembly_output, expr, result, overflow_checks>>

NextFold ==
    \/ BuildFold
    \/ Fold
    \/ FoldAgain

SpecFold == InitFold /\ [][NextFold]_vars

(***************************************************************************)
(* Strength reduction as a state machine: a tree is built and reduced.     *)
(***************************************************************************)
InitShift ==
    /\ NoInterpreter
    /\ NoOutput
    /\ expr \in ShiftLeaves
    /\ overflow_checks \in BOOLEAN
    /\ result = NotRun
    /\ again = NotRun

BuildShift ==
    /\ result = NotRun
    /\ expr' \in Grown(expr, MaxShiftOps, ShiftSiblings, ShiftUnary, Operator)
    /\ UNCHANGED <<vmvars, assembly_output, result, again, overflow_checks>>

Reduce ==
    /\ result = NotRun
    /\ result' = replace_multiplications_with_bitshifts(expr, overflow_checks)
    /\ UNCHANGED <<vmvars, assembly_output, expr, again, overflow_checks>>

NextShift ==
    \/ BuildShift
    \/ Reduce

SpecShift == InitShift /\ [][NextShift]_vars

(***************************************************************************)
(* Properties of the interpreter.                                          *)
(*                                                                         *)
(* In a step of the state machine, StepCall says the owner called step;    *)
(* Executes says the call got past the two guards, and Fetched is then the *)
(* instruction it executes.  The struct's fields other than the trace are  *)
(* the Machine.                                                            *)
(***************************************************************************)
StepCall ==
    /\ holder = "owner"
    /\ holder' = "owner"
    /\ ret' # Ok(SelfValue)
    /\ ret'.tag = "Panic" => running

Executes == running /\ program_counter < Len(instructions)

Fetched == instructions'[program_counter + 1]

Machine == <<reg_store, ram, program_counter, running>>

\* The instruction the last successful step executed.
LastExecuted == instructions[program_counter]

Stepped == holder = "owner" /\ ret = Ok(Continue) /\ program_counter >= 1

C2_DivByZeroFails ==
    [][(StepCall /\ Executes /\ Fetched.op = "Div"
        /\ get(reg_store, Fetched.b) = Some(0))
       => /\ ret' = Err("divzero", -1, "")
          /\ UNCHANGED Machine]_vars

\* C3 as stated: Write and Load at address num_cachelines fail and change
\* nothing; at address num_cachelines - 1 they succeed.
C3_AsStated ==
    [][(StepCall /\ Executes /\ Fetched.op \in {"Write", "Load"})
       => /\ Fetched.addr >= Len(ram)
             => /\ ret' = Err("no_ram_address", Fetched.addr, "")
                /\ UNCHANGED <<reg_store, ram>>
          /\ Fetched.addr = Len(ram) - 1 => ret' = Ok(Continue)]_vars

\* C3, amended: Write and Load at an address >= num_cachelines fail and
\* change nothing; at address num_cachelines - 1 a Load succeeds, and a
\* Write succeeds exactly when its register holds a value (otherwise it
\* fails as an empty register).
C3_RamBounds ==
    [][(StepCall /\ Executes /\ Fetched.op \in {"Write", "Load"})
       => /\ Fetched.addr >= Len(ram)
             => /\ ret' = Err("no_ram_address", Fetched.addr, "")
                /\ UNCHANGED <<reg_store, ram>>
          /\ Fetched.addr = Len(ram) - 1
             => IF Fetched.op = "Load" \/ Fetched.r \in DOMAIN reg_store
                THEN ret' = Ok(Continue)
                ELSE /\ ret' = Err("register_empty", Fetched.r, "")
                     /\ UNCHANGED <<reg_store, ram>>]_vars

\* An access one past the end has just failed, after an access to the last
\* cell succeeded.
C3_Witness ==
    /\ holder = "owner"
    /\ ret = Err("no_ram_address", Len(ram), "")
    /\ program_counter = 1
    /\ LastExecuted.op \in {"Write", "Load"}
    /\ LastExecuted.addr = Len(ram) - 1

\* C4: a step that executes Result leaves the interpreter not running, and
\* a step of an interpreter that is not running fails and changes neither
\* registers, RAM, program counter nor the running flag, whatever follows
\* the Result in the program.
C4_StaysFinished ==
    [][StepCall
       => /\ (Executes /\ Fetched.op = "Result" /\ ret'.tag # "Panic") => ~running'
          /\ ~running => /\ ret' = Err("not_running", -1, "")
                         /\ UNCHANGED Machine]_vars

\* A step after the Result has just been refused, with an instruction left.
C4_Witness ==
    /\ holder = "owner"
    /\ ret = Err("not_running", -1, "")
    /\ program_counter >= 1
    /\ LastExecuted.op = "Result"
    /\ program_counter < Len(instructions)

(***************************************************************************)
(* run_to_end.  RunTurn is one turn of its loop, AnyStep a call of step by  *)
(* the owner or by that loop.                                              *)
(***************************************************************************)
RunTurn == holder # "dropped" /\ holder' # "owner"

AnyStep == StepCall \/ RunTurn

Returned == holder' = "dropped"

\* While run_to_end loops, every instruction up to the program counter has
\* been executed with success, and none of them is a Result.
LoopingCleanly ==
    (holder = "run_to_end" /\ ~aborted)
       => /\ ret = Ok(Continue)
          /\ running
          /\ \A i \in 1..program_counter : instructions[i].op \notin {"Result", "?"}

\* The documented program yields 8 when the interpreter was ready (and is
\* refused as not running when it was not).
SumIsEight ==
    (holder # "owner" /\ instructions = SumProgram)
       => /\ ~aborted
          /\ holder = "dropped" => ret \in {Ok(I32(8)), Err("not_running", -1, "")}
          /\ LET loaded == load_instructions(with_config(NumCachelines),
                                              SumProgram).self
             IN  \A oc \in BOOLEAN :
                    run_to_end(ready(loaded).self, oc).ret = Ok(I32(8))

\* C5: run_to_end returns Ok(v) exactly when the instructions before the
\* first Result all step successfully and the register of that Result holds
\* a value; v is then that value, running is false, and nothing is executed
\* after the Result (the turn that returns is the last one, and no later
\* slot was ever read).  The program Store 5, Store 3, Add, Result yields 8.
C5_RunToEnd ==
    /\ []LoopingCleanly
    /\ []SumIsEight
    /\ [][holder # "dropped"]_vars
    /\ [][RunTurn
          => /\ (Returned /\ ret'.tag = "Ok")
                   <=> (Executes /\ Fetched.op = "Result"
                        /\ Fetched.r \in DOMAIN reg_store)
             /\ (Returned /\ ret'.tag = "Ok")
                   => /\ ret' = Ok(I32(reg_store[Fetched.r]))
                      /\ ~running'
                      /\ program_counter' = program_counter + 1
                      /\ UNCHANGED <<reg_store, ram>>
                      /\ \A i \in 1..program_counter :
                            instructions[i].op # "Result"
                      /\ \A i \in (program_counter + 2)..Len(instructions) :
                            instructions'[i] = Unfixed]_vars

\* run_to_end has returned 8 for the documented program.
C5_Witness ==
    /\ holder = "dropped"
    /\ instructions = SumProgram
    /\ ret = Ok(I32(8))
    /\ ~running

\* The decimal integer strings among the input values, with their values.
DecimalValue == (<<"7">> :> 7) @@ (<<"-", "1", "2">> :> -12)

\* C6: a step of Transfer(var, reg) fails, in this order, when no mapping is
\* attached, when var is not in the mapping, when its value is the empty
\* string, when its value is not a decimal integer; a failure leaves the
\* registers and the program counter as they were.  Otherwise the step
\* puts the integer into reg.  With x bound to "7", Transfer(x, reg) and
\* then Result(reg) yield 7.
C6_TransferCases ==
    /\ [][(AnyStep /\ Executes /\ Fetched.op = "Transfer")
          => LET var  == Fetched.var
                 reg  == Fetched.reg
                 bound == input_variables.val
                 fails(kind, name) ==
                     /\ ret' = Err(kind, -1, name)
                     /\ UNCHANGED <<reg_store, program_counter>>
             IN  IF ~input_variables.some THEN fails("no_variables_loaded", "")
                 ELSE IF var \notin DOMAIN bound THEN fails("unknown_var", var)
                 ELSE IF bound[var] = <<>> THEN fails("empty_var", var)
                 ELSE IF bound[var] \notin DOMAIN DecimalValue
                 THEN fails("nan_var", var)
                 ELSE /\ ret' = Ok(Continue)
                      /\ reg_store' = insert(reg_store, reg, DecimalValue[bound[var]])
                      /\ program_counter' = program_counter + 1]_vars
    /\ [][(StepCall /\ Executes /\ program_counter = 1
           /\ instructions[1].op = "Transfer"
           /\ Fetched = Result(instructions[1].reg)
           /\ input_variables = Some("x" :> <<"7">>))
          => ret' = Ok(Finished(7))]_vars

\* Transfer of x = "7" and Result have just yielded 7.
C6_Witness ==
    /\ holder = "owner"
    /\ program_counter = 2
    /\ instructions[1].op = "Transfer"
    /\ input_variables = Some("x" :> <<"7">>)
    /\ ret = Ok(Finished(7))

\* Every field of the interpreter.
Fields == <<reg_store, ram, instructions, program_counter, input_variables,
            running, str_repr, repr_enabled>>

\* C7: a step of an interpreter that is not running, or whose program
\* counter is at or past the end of the instructions, returns a failure and
\* changes nothing; so run_to_end on a ready interpreter whose program has
\* no Result returns a failure, and when every instruction has stepped
\* successfully that failure comes from the step after the last one.
C7_RefusesToExecute ==
    /\ [][(AnyStep /\ ~Executes)
          => /\ ret' = IF ~running THEN Err("not_running", -1, "")
                       ELSE Err("no_result_found", -1, "")
             /\ UNCHANGED Fields]_vars
    /\ []((holder = "dropped"
           /\ \A i \in 1..Len(instructions) : instructions[i].op # "Result")
          => /\ ret.tag = "Err"
             /\ (running /\ program_counter = Len(instructions))
                   => ret = Err("no_result_found", -1, ""))

\* run_to_end has run a program without Result to its end and failed there.
C7_Witness ==
    /\ holder = "dropped"
    /\ running
    /\ program_counter = Len(instructions)
    /\ program_counter >= 1
    /\ ret = Err("no_result_found", -1, "")

(***************************************************************************)
(* Properties of the passes.                                               *)
(***************************************************************************)
\* C8: folding is idempotent: folding the folded tree gives what folding
\* the tree gave, for every tree, a constant division by zero and unary
\* operators other than Sub included.
C8_FoldIdempotent == again # NotRun => again = result

\* A tree that folding changed into a constant division by zero has been
\* folded twice.
C8_Witness ==
    /\ again # NotRun
    /\ result.tag = "Ok"
    /\ result.val # expr
    /\ result.val.type = "BinaryOp"
    /\ result.val.operator = "Div"
    /\ result.val.lhs.type = "Num"
    /\ result.val.rhs = Num(0)

\* The children of the binary node `expr` both fold to Num.
FoldsToNums ==
    /\ expr.type = "BinaryOp"
    /\ LET l == run_constant_fold(expr.lhs, overflow_checks)
           r == run_constant_fold(expr.rhs, overflow_checks)
       IN  /\ l.tag = "Ok" /\ l.val.type = "Num"
           /\ r.tag = "Ok" /\ r.val.type = "Num"

\* C9: a binary node whose children fold to Num(x) and Num(0) under Div is
\* returned as BinaryOp(Num(x), Div, Num(0)); every other binary node whose
\* children both fold to Num is returned as a single Num.
C9_DivisionByZeroKept ==
    (result # NotRun /\ FoldsToNums)
       => LET l == run_constant_fold(expr.lhs, overflow_checks).val
              r == run_constant_fold(expr.rhs, overflow_checks).val
          IN  IF expr.operator = "Div" /\ r.n = 0
              THEN result = Ok(BinaryOp(l, "Div", Num(0)))
              ELSE result.tag = "Ok" /\ result.val.type = "Num"

\* The values given to the variable of the trees.
Envs == [{"x"} -> {-1, 5, -8}]

\* The value of a tree on the machine: the interpreter's operators, its
\* refusal of a division by zero, unary Sub as negation and the other
\* unary operators as the value of their operand.
RECURSIVE Eval(_, _, _)
Eval(e, env, oc) ==
    CASE e.type = "Num" -> Ok(e.n)
      [] e.type = "Var" -> Ok(env[e.name])
      [] e.type = "UnaryOp" ->
            LET v == Eval(e.expr, env, oc)
            IN  IF v.tag # "Ok" \/ e.operator # "Sub" THEN v
                ELSE IF oc /\ neg_overflows(v.val) THEN Panic("overflow")
                ELSE Ok(wrapping_neg(v.val))
      [] e.type = "BinaryOp" ->
            LET l == Eval(e.lhs, env, oc)
                r == Eval(e.rhs, env, oc)
            IN  IF l.tag # "Ok" THEN l
                ELSE IF r.tag # "Ok" THEN r
                ELSE IF e.operator = "Div" /\ r.val = 0
                THEN Err("divzero", -1, "")
                ELSE apply_op(e.operator, l.val, r.val, oc)

\* C10: the tree strength reduction returns has, for every value of the
\* variable, the value of the tree it was given.
C10_ValuePreserved ==
    (result # NotRun /\ result.tag = "Ok")
       => \A env \in Envs :
             Eval(result.val, env, overflow_checks) = Eval(expr, env, overflow_checks)

\* C11: folding is total: run_constant_fold returns a tree for every tree,
\* whatever the constants its nodes compute (an overflow, the division of
\* the minimum by -1, the negation of the minimum, a shift by a negative
\* amount or by 32 or more).
C11_FoldTotal == result # NotRun => result.tag = "Ok"

(***************************************************************************)
(* More properties of the interpreter.                                     *)
(***************************************************************************)
\* C12: a call of step returns a signal or a failure and never aborts the
\* process, with tracing or without.
C12_StepNeverAborts == [][AnyStep => ret'.tag # "Panic"]_vars

\* C13: a step that returns a failure leaves the register store and every
\* RAM cell as they were.
C13_FailureKeepsContents ==
    [][(AnyStep /\ ret'.tag = "Err") => UNCHANGED <<reg_store, ram>>]_vars

\* A step has just failed with a value in the register store that an
\* earlier step put there.
C13_Witness ==
    /\ holder = "owner"
    /\ ret.tag = "Err"
    /\ running
    /\ program_counter >= 1
    /\ program_counter < Len(instructions)
    /\ reg_store # EmptyMap

\* What a step that finishes with the value v returns: Finished(v) from
\* step, v from the loop of run_to_end.
FinishedWith(v) == IF holder' = "owner" THEN Ok(Finished(v)) ELSE Ok(I32(v))

\* C15: a successful step advances the program counter by one; it returns
\* Continue and leaves running true for an instruction other than Result,
\* and Finished with the register's value for a Result.  No step decreases
\* the program counter or advances it by more than one.
C15_CounterAdvances ==
    [][AnyStep
       => /\ program_counter' \in {program_counter, program_counter + 1}
          /\ ret'.tag = "Ok"
                => /\ Executes
                   /\ program_counter' = program_counter + 1
                   /\ IF Fetched.op = "Result"
                      THEN /\ Fetched.r \in DOMAIN reg_store
                           /\ ret' = FinishedWith(reg_store[Fetched.r])
                      ELSE /\ ret' = Ok(Continue)
                           /\ running']_vars

\* Two instructions have been executed, the second one a Result.
C15_Witness ==
    /\ holder = "owner"
    /\ program_counter = 2
    /\ ret.tag = "Ok"
    /\ ret.val.state = "Finished"
    /\ LastExecuted.op = "Result"

\* C16: a step of a binary instruction (a, b) with register a or register
\* b empty fails with the no-such-register failure that names an empty
\* register among a and b, for Div too and whatever the other register
\* holds.
C16_EmptyRegisterFails ==
    [][(AnyStep /\ Executes /\ Fetched.op \in BinOps
        /\ (Fetched.a \notin DOMAIN reg_store \/ Fetched.b \notin DOMAIN reg_store))
       => /\ ret'.tag = "Err"
          /\ ret'.kind = "no_such_reg"
          /\ ret'.num \in {Fetched.a, Fetched.b} \ DOMAIN reg_store]_vars

\* The same call of step on an interpreter with the same fields and
\* tracing off.
Untraced(checked) ==
    step([Self EXCEPT !.instructions = instructions', !.repr_enabled = FALSE],
         checked)

\* C19: with tracing on, display_current after a successful step of a
\* binary instruction (a, b) shows the values a and b held before the step;
\* and a step with tracing on returns what the step of an untraced
\* interpreter returns and leaves the same registers, RAM and program
\* counter.
C19_TracingTransparent ==
    [][(StepCall /\ repr_enabled)
       => /\ (ret'.tag = "Ok" /\ Fetched.op \in BinOps)
                => display_current(Self') =
                      fmt_i32(reg_store[Fetched.a]) \o <<" ">>
                         \o OpSymbol(Fetched.op) \o <<" ">>
                         \o fmt_i32(reg_store[Fetched.b])
          /\ \E checked \in BOOLEAN :
                LET u == Untraced(checked)
                IN  /\ ret' = u.ret
                    /\ reg_store' = u.self.reg_store
                    /\ ram' = u.self.ram
                    /\ program_counter' = u.self.program_counter]_vars

(***************************************************************************)
(* The interpreter stepped by its owner, with reset among the calls.        *)
(***************************************************************************)
Reset ==
    /\ Owned
    /\ Becomes(reset(Self))
    /\ UNCHANGED holder

NextReset ==
    \/ LoadInstructions
    \/ WithVariables
    \/ Ready
    \/ Step
    \/ Reset

SpecReset == Init /\ [][NextReset]_vars

\* The call is reset.
ResetCall == holder = "owner" /\ holder' = "owner" /\ ret' = Ok(Unit)

\* The step executes a Write to the cell at addr, successfully.
WritesTo(addr) ==
    /\ ~ResetCall
    /\ AnyStep
    /\ Executes
    /\ ret'.tag = "Ok"
    /\ Fetched.op = "Write"
    /\ Fetched.addr = addr

\* C20: the RAM has num_cachelines cells in every state; every cell is 0 at
\* construction and after reset; and a cell changes its value only in a
\* successful Write to its address, or when reset clears it.
C20_RamCells ==
    /\ \A addr \in 0..(NumCachelines - 1) : ram[addr + 1] = 0
    /\ [](Len(ram) = NumCachelines)
    /\ [][ResetCall => \A addr \in 0..(NumCachelines - 1) : ram'[addr + 1] = 0]_vars
    /\ [][\A addr \in 0..(NumCachelines - 1) :
             ram'[addr + 1] # ram[addr + 1] => ResetCall \/ WritesTo(addr)]_vars

\* reset has cleared the RAM of an untraced interpreter that had executed
\* a Store of 5 and the Write of that register to a cell.
C20_Witness ==
    /\ ret = Ok(Unit)
    /\ ~repr_enabled
    /\ Len(instructions) = 2
    /\ instructions[1].op = "Store"
    /\ instructions[1].n = 5
    /\ instructions[2].op = "Write"
    /\ instructions[2].r = instructions[1].reg
    /\ instructions[2].addr < NumCachelines
    /\ \A addr \in 0..(NumCachelines - 1) : ram[addr + 1] = 0

(***************************************************************************)
(* The panel as a state machine: compile, run and clear are called in any  *)
(* order and between the frames; a panic ends the process.                 *)
(***************************************************************************)
InitGui ==
    /\ NoInterpreter
    /\ expr = NotRun
    /\ result = NotRun
    /\ again = NotRun
    /\ overflow_checks \in BOOLEAN
    /\ assembly_output = empty

\* The call's outcome becomes the panel.
PanelBecomes(o) ==
    /\ assembly_output' = o.self
    /\ ret' = o.ret
    /\ UNCHANGED <<reg_store, ram, instructions, program_counter, input_variables,
                   running, str_repr, repr_enabled, holder, passvars>>

Compile ==
    /\ ~aborted
    /\ \E r \in CompileResults, hw \in Hardware :
          PanelBecomes(compile(assembly_output, r, hw))

Run ==
    /\ ~aborted
    /\ \E input \in VarMaps, stepwise \in BOOLEAN :
          PanelBecomes(run(assembly_output, input, stepwise, overflow_checks))

Clear ==
    /\ ~aborted
    /\ PanelBecomes(Outcome(clear(assembly_output), Ok(Unit)))

\* A frame is drawn.
Ui ==
    /\ ~aborted
    /\ \E click \in Clicks :
          PanelBecomes(ui(assembly_output, click, overflow_checks))

NextGui ==
    \/ Compile
    \/ Run
    \/ Clear
    \/ Ui

SpecGui == InitGui /\ [][NextGui]_vars

\* The result the panel shows.
Shown == assembly_output.program_result

\* C14: whenever the panel shows a program_result, it holds a tracing
\* interpreter built from the panel's instructions and from input variables
\* whose run to the end gives that result, and stepping the tracing
\* interpreter to its Result gives that result.
C14_TracingMatchesResult ==
    (~aborted /\ Shown.some)
        => /\ assembly_output.interpreter.some
           /\ \E input \in VarMaps :
                 /\ run_to_end(built(assembly_output, input, FALSE).self,
                               overflow_checks).ret = Ok(Shown.val)
                 /\ assembly_output.interpreter.val
                       = built(assembly_output, input, TRUE).self
           /\ run_to_end(assembly_output.interpreter.val, overflow_checks).ret
                 = Ok(Shown.val)

(***************************************************************************)
(* More properties of strength reduction.                                  *)
(***************************************************************************)
\* n = 2^k for a k in 0..30.
PositivePowerOfTwo(n) == n > 0 /\ pow2(floor_log2(n)) = n

\* The reduction of the tree e returns a tree.
Reduces(e) == replace_multiplications_with_bitshifts(e, overflow_checks).tag = "Ok"

\* The tree the reduction of e returns.
Reduced(e) == replace_multiplications_with_bitshifts(e, overflow_checks).val

\* A Mul or Div node with a literal operand that is zero or negative and no
\* positive literal operand; the reduction of its children returns.
NonPositiveLiteralNode ==
    /\ expr.type = "BinaryOp"
    /\ expr.operator \in {"Mul", "Div"}
    /\ \E c \in {expr.lhs, expr.rhs} : c.type = "Num" /\ c.n <= 0
    /\ \A c \in {expr.lhs, expr.rhs} : (c.type = "Num" => c.n <= 0) /\ Reduces(c)

\* C17: a literal that is zero or negative is never treated as a power of
\* two: a Mul or Div node with such a literal operand is returned with its
\* operator and its children reduced, and the pass does not abort.
C17_NonPositiveKept ==
    (result # NotRun /\ NonPositiveLiteralNode)
        => result = Ok(BinaryOp(Reduced(expr.lhs), expr.operator, Reduced(expr.rhs)))

\* The node under reduction is l op r.
ReducedNode(op) ==
    /\ result # NotRun
    /\ expr.type = "BinaryOp"
    /\ expr.operator = op

\* C18: Num(n) * right with n a positive power of two becomes
\* right << log2 n, right as given; the rewrite by the left literal is not
\* applied to Div; left * Num(n) and left / Num(n) with n a positive power
\* of two become reduce(left) << log2 n and reduce(left) >> log2 n.
C18_ShiftRewrites ==
    /\ (ReducedNode("Mul") /\ expr.lhs.type = "Num" /\ PositivePowerOfTwo(expr.lhs.n))
          => result = Ok(BinaryOp(expr.rhs, "Shl", Num(floor_log2(expr.lhs.n))))
    /\ (ReducedNode("Div") /\ result.tag = "Ok")
          => result.val.operator # "Shl"
    /\ \A op \in {"Mul", "Div"} :
          (/\ ReducedNode(op)
           /\ expr.rhs.type = "Num"
           /\ PositivePowerOfTwo(expr.rhs.n)
           /\ Reduces(expr.lhs))
          => result = Ok(BinaryOp(Reduced(expr.lhs),
                                  IF op = "Mul" THEN "Shl" ELSE "Shr",
                                  Num(floor_log2(expr.rhs.n))))

(***************************************************************************)
(* The loop of run_to_end and failed steps.                                *)
(***************************************************************************)
\* C21: run_to_end terminates: the loop returns a value or a failure after
\* at most Len(instructions) + 1 calls of step.  A turn of the loop is one
\* call of step; a turn either returns, with a value or a failure, or has
\* advanced the program counter by one, and the program counter of a
\* looping interpreter, which counts the turns taken, never exceeds
\* Len(instructions).
C21_RunToEndReturns ==
    /\ [](holder = "run_to_end" => program_counter <= Len(instructions))
    /\ [][RunTurn
          => /\ ret'.tag # "Panic"
             /\ Returned \/ program_counter' = program_counter + 1]_vars

\* C22: a step that returns a failure leaves the program counter and
\* running as they were, and the same step again returns the same failure,
\* unless the instruction is Result: a Result whose register is empty
\* returns its failure with the program counter advanced by one and running
\* false, and the next step fails as not running.
C22_FailedStep ==
    [][(AnyStep /\ ret'.tag = "Err")
       => IF Executes /\ Fetched.op = "Result"
          THEN /\ Fetched.r \notin DOMAIN reg_store
               /\ program_counter' = program_counter + 1
               /\ ~running'
               /\ \A checked \in BOOLEAN :
                     step(Self', checked) = Outcome(Self', Err("not_running", -1, ""))
          ELSE /\ UNCHANGED <<program_counter, running>>
               /\ \A checked \in BOOLEAN : step(Self', checked).ret = ret']_vars

\* A Result whose register is empty has just failed.
C22_Witness ==
    /\ holder = "owner"
    /\ ret.tag = "Err"
    /\ ~running
    /\ program_counter >= 1
    /\ LastExecuted.op = "Result"
    /\ LastExecuted.r \notin DOMAIN reg_store

\* The round trip on RoundTripProgram: once the Load is executed, register
\* 1 holds the 5 that register 0 held at the Write, and register 0 holds
\* what was stored into it in between.
RoundTrip ==
    (instructions = RoundTripProgram /\ program_counter >= 4)
       => /\ ram[2] = 5
          /\ get(reg_store, 0) = Some(-1)
          /\ get(reg_store, 1) = Some(5)

\* C23: a successful Write(r, addr) puts the value of r into cell addr; a
\* cell keeps its value through every step that is not a successful Write
\* to it, and is 0 before any Write; a Load(addr, r2) from an existing cell
\* never fails, whether r2 is empty or not, and sets r2 to the cell's
\* value.  So a Load gives back what the last Write to its address wrote,
\* and 0 when there was none.
C23_WriteLoadRoundTrip ==
    /\ \A addr \in 0..(NumCachelines - 1) : ram[addr + 1] = 0
    /\ []RoundTrip
    /\ [][AnyStep
          => /\ \A addr \in 0..(NumCachelines - 1) :
                   IF /\ Executes
                      /\ Fetched.op = "Write"
                      /\ Fetched.addr = addr
                      /\ ret'.tag = "Ok"
                   THEN ram'[addr + 1] = reg_store[Fetched.r]
                   ELSE ram'[addr + 1] = ram[addr + 1]
             /\ (Executes /\ Fetched.op = "Load" /\ Fetched.addr < Len(ram)
                 /\ ret'.tag # "Panic")
                   => /\ ret' = Ok(Continue)
                      /\ reg_store' = insert(reg_store, Fetched.r, ram[Fetched.addr + 1])]_vars

\* The Load of RoundTripProgram has been executed: register 1 was empty,
\* and register 0 was overwritten after the Write.
C23_Witness ==
    /\ instructions = RoundTripProgram
    /\ program_counter = 4
    /\ ret = Ok(Continue)
    /\ get(reg_store, 1) = Some(5)

(***************************************************************************)
(* The frames of the panel.                                                *)
(***************************************************************************)
\* The instructions of the panel with their bars.
Bars == IF assembly_output.asm.some THEN assembly_output.asm.val ELSE <<>>

\* The instructions whose bar is above 0.
Started == {i \in 1..Len(Bars) : Bars[i].progress > 0}

\* The number of instructions the tracing interpreter has executed.
Executed ==
    IF assembly_output.interpreter.some
    THEN assembly_output.interpreter.val.program_counter
    ELSE 0

\* The step button takes a click.
StepEnabled ==
    /\ ~aborted
    /\ ~assembly_output.error.some
    /\ assembly_output.asm.some
    /\ assembly_output.interpreter.some
    /\ is_running(assembly_output.interpreter.val)
    /\ assembly_output.stepwise
    /\ ~assembly_output.step_triggered

\* A frame without a click in which the bar of the current instruction
\* becomes full.
CompletingFrame ==
    /\ assembly_output' = ui(assembly_output, "none", overflow_checks).self
    /\ curr_inst(Bars) # 0
    /\ assembly_output'.asm.val[curr_inst(Bars)].progress >= FullProgress

\* The interpreter has executed as many instructions as there are bars
\* above 0.
Counted == ~aborted => Executed = Cardinality(Started)

\* Every instruction before one whose bar is above 0 has a full bar.
Ordered == \A i \in Started : \A j \in 1..(i - 1) : Bars[j].progress >= FullProgress

\* A frame steps one instruction, and in stepwise mode only when triggered.
Triggered ==
    Executed' > Executed
       => /\ Executed' = Executed + 1
          /\ assembly_output.stepwise => assembly_output.step_triggered

\* A trigger the step button can set finds an instruction to execute: the
\* current bar is at 0.
TriggerSteps ==
    StepEnabled => /\ curr_inst(Bars) # 0
                   /\ Bars[curr_inst(Bars)].progress = 0

\* In stepwise mode the trigger is cleared when the bar becomes full.
TriggerCleared ==
    (assembly_output.stepwise /\ CompletingFrame) => ~assembly_output'.step_triggered

\* C24: the frames step the tracing interpreter once per instruction and
\* in program order: the number of instructions it has executed is the
\* number of bars above 0; a bar is above 0 only when every earlier bar is
\* full; in stepwise mode no frame steps without a trigger; and every
\* trigger executes exactly one instruction before it is cleared (the
\* trigger the button sets finds a bar at 0, and is cleared when that bar
\* is full).
C24_FrameDriver ==
    /\ []Counted
    /\ []Ordered
    /\ [][Triggered]_vars
    /\ []TriggerSteps
    /\ [][TriggerCleared]_vars

=============================================================================
